---- MODULE Spec2Model ----
(***************************************************************************)
(* A model of r2o.py, the Roam-JSON to Obsidian-markdown converter.        *)
(*                                                                         *)
(* Python strings are modelled as sequences of one-character strings, and  *)
(* offsets into them are Python's (0-based, end-exclusive), so that        *)
(* m.start(1), m.end(2), m.end(3) and startpos carry the values they have  *)
(* in the program.  The regular expressions are modelled by what they      *)
(* match, character by character.                                          *)
(*                                                                         *)
(* A value that is computed once and read many times is bound by a         *)
(* quantifier or a set constructor over a one-element set, as in           *)
(* CHOOSE r \in {F(v) : v \in {e}} : TRUE for F(e), so that it is evaluated *)
(* once.                                                                   *)
(***************************************************************************)
EXTENDS Integers, Sequences, FiniteSets, TLC

(***************************************************************************)
(* Python string primitives                                                *)
(***************************************************************************)

\* s[a:b]
Slice(s, a, b) == SubSeq(s, a + 1, b)

\* s[a:]
SliceFrom(s, a) == SubSeq(s, a + 1, Len(s))

\* c * n for a one-character string c
Repeat(c, n) == [k \in 1..n |-> c]

\* s.startswith(p, i)
StartsWithAt(s, p, i) ==
    /\ i + Len(p) <= Len(s)
    /\ \A k \in 1..Len(p) : s[i + k] = p[k]

\* s.endswith(p)
EndsWith(s, p) == Len(p) <= Len(s) /\ StartsWithAt(s, p, Len(s) - Len(p))

\* c in s
Has(s, c) == \E k \in 1..Len(s) : s[k] = c

\* p in s, for a string p
Contains(s, p) == \E i \in 0..(Len(s) - Len(p)) : StartsWithAt(s, p, i)

\* s.replace(old, new) for a one-character string old
Replace(s, old, new) ==
    LET done[k \in 0..Len(s)] ==
            IF k = 0 THEN <<>>
            ELSE done[k - 1] \o (IF s[k] = old THEN new ELSE <<s[k]>>)
    IN  done[Len(s)]

\* the least element of a non-empty set of numbers
Min(S) == CHOOSE x \in S : \A y \in S : x <= y

Digits == {"0", "1", "2", "3", "4", "5", "6", "7", "8", "9"}

Lower ==
    {"a", "b", "c", "d", "e", "f", "g", "h", "i", "j", "k", "l", "m",
     "n", "o", "p", "q", "r", "s", "t", "u", "v", "w", "x", "y", "z"}

(***************************************************************************)
(* The block-reference regular expressions.  Each is a literal opener, a   *)
(* group of exactly UidLen characters other than a newline (.{9}), and a   *)
(* literal closer; group 1 is the opener, group 2 the id, group 3 the      *)
(* closer.                                                                 *)
(***************************************************************************)

UidLen == 9

re_blockmentions ==
    [open  |-> <<"{","{","m","e","n","t","i","o","n","s",":"," ","(","(">>,
     close |-> <<")",")","}","}">>]

re_blockembed ==
    [open  |-> <<"{","{","e","m","b","e","d",":"," ","(","(">>,
     close |-> <<")",")","}","}">>]

re_blockref ==
    [open  |-> <<"(","(">>,
     close |-> <<")",")">>]

\* the pattern matches with its first character at offset i
MatchesAt(re, s, i) ==
    /\ StartsWithAt(s, re.open, i)
    /\ i + Len(re.open) + UidLen + Len(re.close) <= Len(s)
    /\ \A k \in 1..UidLen : s[i + Len(re.open) + k] # "\n"
    /\ StartsWithAt(s, re.close, i + Len(re.open) + UidLen)

NoMatch == [found |-> FALSE]

\* the match object of a match at offset i
MatchObject(re, s, i) ==
    [found  |-> TRUE,
     start1 |-> i,
     end2   |-> i + Len(re.open) + UidLen,
     end3   |-> i + Len(re.open) + UidLen + Len(re.close),
     group2 |-> Slice(s, i + Len(re.open), i + Len(re.open) + UidLen)]

\* re.search(s, pos=pos): the leftmost match that starts at or after pos
Search(re, s, pos) ==
    LET starts == {i \in pos..Len(s) : MatchesAt(re, s, i)}
    IN  IF starts = {} THEN NoMatch ELSE MatchObject(re, s, Min(starts))

\* find_blockrefs: an embed anywhere in the remainder wins over a mention,
\* a mention anywhere in the remainder wins over a plain reference
find_blockrefs(s, startpos) ==
    IF Search(re_blockembed, s, startpos).found
    THEN [m |-> Search(re_blockembed, s, startpos), is_embed |-> TRUE]
    ELSE IF Search(re_blockmentions, s, startpos).found
    THEN [m |-> Search(re_blockmentions, s, startpos), is_embed |-> FALSE]
    ELSE [m |-> Search(re_blockref, s, startpos), is_embed |-> FALSE]

(***************************************************************************)
(* Dates.  dateutil's parse is modelled on the strings the daily-note      *)
(* pattern describes, "<Month> <day><suffix>, <year>"; isoformat gives     *)
(* YYYY-MM-DD.                                                             *)
(***************************************************************************)

MonthNames ==
    << <<"J","a","n","u","a","r","y">>,
       <<"F","e","b","r","u","a","r","y">>,
       <<"M","a","r","c","h">>,
       <<"A","p","r","i","l">>,
       <<"M","a","y">>,
       <<"J","u","n","e">>,
       <<"J","u","l","y">>,
       <<"A","u","g","u","s","t">>,
       <<"S","e","p","t","e","m","b","e","r">>,
       <<"O","c","t","o","b","e","r">>,
       <<"N","o","v","e","m","b","e","r">>,
       <<"D","e","c","e","m","b","e","r">> >>

\* the two-digit month numbers, in the order of MonthNames
MonthDigits ==
    << <<"0","1">>, <<"0","2">>, <<"0","3">>, <<"0","4">>, <<"0","5">>, <<"0","6">>,
       <<"0","7">>, <<"0","8">>, <<"0","9">>, <<"1","0">>, <<"1","1">>, <<"1","2">> >>

\* the number of digits at the start of s[i:]
DigitRun(s, i) ==
    Min({d \in 0..(Len(s) - i) : d = Len(s) - i \/ s[i + d + 1] \notin Digits})

\* "<day><suffix>, <year>" at offset i: digits, two lower-case letters,
\* a comma and a space, four digits; the offset just past it, or -1
DayYearEnd(s, i) ==
    LET d == DigitRun(s, i)
        e == i + d + 2 + 2 + 4
    IN  IF /\ d >= 1
           /\ e <= Len(s)
           /\ s[i + d + 1] \in Lower
           /\ s[i + d + 2] \in Lower
           /\ s[i + d + 3] = ","
           /\ s[i + d + 4] = " "
           /\ \A k \in 1..4 : s[i + d + 4 + k] \in Digits
        THEN e ELSE -1

\* re_daily.match(title): the pattern matches a prefix of the title
re_daily_match(title) ==
    \E k \in 1..12 :
        /\ StartsWithAt(title, MonthNames[k] \o <<" ">>, 0)
        /\ DayYearEnd(title, Len(MonthNames[k]) + 1) # -1

\* the string is exactly one long-form date
IsLongDate(t) ==
    \E k \in 1..12 :
        /\ StartsWithAt(t, MonthNames[k] \o <<" ">>, 0)
        /\ DayYearEnd(t, Len(MonthNames[k]) + 1) = Len(t)

\* parse(t).isoformat()[:10] for a long-form date t
IsoDate(t) ==
    LET k  == CHOOSE k \in 1..12 : StartsWithAt(t, MonthNames[k] \o <<" ">>, 0)
        i  == Len(MonthNames[k]) + 1
        d  == DigitRun(t, i)
        dd == IF d = 1 THEN <<"0", t[i + 1]>> ELSE Slice(t, i, i + d)
    IN  Slice(t, Len(t) - 4, Len(t)) \o <<"-">> \o MonthDigits[k] \o <<"-">> \o dd

(***************************************************************************)
(* replace_daylinks.  re_daylink is "[[", then one or more characters of   *)
(* the class the pattern's bracket expression denotes (the letters of the  *)
(* month names, "|", " ", "[" and the digits), two lower-case letters,     *)
(* ", ", four digits, and "]]".                                            *)
(***************************************************************************)

DayClass ==
    {"J","a","n","u","r","y","|","F","e","b","M","c","h","A","p","i","l","g",
     "s","t","S","m","O","o","N","v","D"," ","["} \cup Digits

\* the pattern matches at offset i with a class run of n characters
DaylinkAt(s, i, n) ==
    /\ StartsWithAt(s, <<"[","[">>, i)
    /\ n >= 1
    /\ i + 2 + n + 8 + 2 <= Len(s)
    /\ \A k \in 1..n : s[i + 2 + k] \in DayClass
    /\ s[i + 2 + n + 1] \in Lower
    /\ s[i + 2 + n + 2] \in Lower
    /\ s[i + 2 + n + 3] = ","
    /\ s[i + 2 + n + 4] = " "
    /\ \A k \in 1..4 : s[i + 2 + n + 4 + k] \in Digits
    /\ StartsWithAt(s, <<"]","]">>, i + 2 + n + 8)

\* re_daylink.search(s): the leftmost match
re_daylink_search(s) ==
    LET starts == {i \in 0..Len(s) : \E n \in 1..Len(s) : DaylinkAt(s, i, n)}
    IN  IF starts = {} THEN NoMatch
        ELSE LET i == Min(starts)
                 n == CHOOSE n \in 1..Len(s) : DaylinkAt(s, i, n)
             IN  [found  |-> TRUE,
                  end1   |-> i + 2,
                  group2 |-> Slice(s, i + 2, i + 2 + n + 8),
                  end0   |-> i + 2 + n + 8 + 2]

\* one iteration of the loop of replace_daylinks on a string with a match m
DaylinkReplaced(s, m) ==
    LET head        == Slice(s, 0, m.end1)
        replacement == IsoDate(m.group2)
        tail        == <<"]","]">> \o SliceFrom(s, m.end0)
    IN  head \o replacement \o tail

RECURSIVE replace_daylinks(_)
replace_daylinks(s) ==
    IF ~re_daylink_search(s).found THEN s
    ELSE CHOOSE r \in {replace_daylinks(new) :
                          new \in {DaylinkReplaced(s, m) : m \in {re_daylink_search(s)}}} : TRUE

(***************************************************************************)
(* Pass 1 helpers: the title and the index                                 *)
(***************************************************************************)

\* main: the characters that are taken out of a title
SanitizeTitle(title) ==
    CHOOSE t4 \in
        {Replace(t3, "\\", <<>>) : t3 \in
            {Replace(t2, "^", <<>>) : t2 \in
                {Replace(t1, "\"", <<>>) : t1 \in
                    {Replace(title, ":", <<" ","-">>)}}}} : TRUE

\* main: the ParsedPage of a page
ParsedPage(page) ==
    CHOOSE parsed \in
        {IF re_daily_match(title)
         THEN [title |-> IsoDate(title), children |-> page.children, daily |-> TRUE]
         ELSE [title |-> title, children |-> page.children, daily |-> FALSE]
         : title \in {SanitizeTitle(page.title)}} : TRUE

\* a dict with no key
EmptyDict == [k \in {} |-> 0]

\* d[k] = v
SetItem(d, k, v) == [x \in DOMAIN d \cup {k} |-> IF x = k THEN v ELSE d[x]]

\* d.update(e)
Update(d, e) == [x \in DOMAIN d \cup DOMAIN e |-> IF x \in DOMAIN e THEN e[x] ELSE d[x]]

RECURSIVE scan_blocks(_, _)

\* scan_blocks with the two writes of its loop body exchanged
ScanBlockChildrenFirst(h, block, u2b) ==
    SetItem(Update(u2b, scan_blocks(h, h[block].children)), h[block].uid, block)

\* the body of scan_blocks' loop: the block is written, then its subtree
ScanBlock(h, block, u2b) ==
    Update(SetItem(u2b, h[block].uid, block), scan_blocks(h, h[block].children))

\* scan_blocks(blocks, page): the look-up table of the blocks and their
\* subtrees.  table[k] is the table after k iterations of the loop
scan_blocks(h, blocks) ==
    LET table[k \in 0..Len(blocks)] ==
            IF k = 0 THEN EmptyDict
            ELSE CHOOSE t \in {ScanBlock(h, blocks[k], u2b) : u2b \in {table[k - 1]}} : TRUE
    IN  table[Len(blocks)]

\* the blocks scan_blocks visits, each of which gets its "page" entry set
RECURSIVE Visited(_, _)
Visited(h, blocks) ==
    UNION {{blocks[k]} \cup Visited(h, h[blocks[k]].children) : k \in 1..Len(blocks)}

(***************************************************************************)
(* Pass 2 and 3 helpers: the block references of one string                *)
(***************************************************************************)

\* get_referenced_uids(s, uid2block, referenced_uids): the set afterwards.
\* found[p] is what the loop adds from the cursor p on
get_referenced_uids(s, uid2block, referenced) ==
    LET found[p \in 0..Len(s)] ==
            UNION {IF ~m.found THEN {}
                   ELSE (IF m.group2 \in DOMAIN uid2block THEN {m.group2} ELSE {})
                            \cup found[m.end2]
                   : m \in {find_blockrefs(s, p).m}}
    IN  referenced \cup found[0]

\* the cursor put past the whole markup instead of past the id
UnknownCursorPastMarkup(m) == m.end3

\* render_blockrefs: the cursor after a match whose uid is not in uid2block
UnknownCursor(m) == m.end2

\* render_blockrefs: r_block["uid"].replace("_", "")
safe_block_id(uid) == Replace(uid, "_", <<>>)

\* render_blockrefs: the link that replaces a match
Replacement(is_embed, title, r_uid, block_content) ==
    IF is_embed
    THEN <<"!","[","[">> \o title \o <<"#","^">> \o safe_block_id(r_uid) \o <<"]","]">>
    ELSE <<"[","[">> \o title \o <<"#","^">> \o safe_block_id(r_uid)
             \o <<"|">> \o block_content \o <<"]","]">>

(***************************************************************************)
(* render_children helpers: the line of one block                          *)
(***************************************************************************)

NoHeading == -1

\* the prefix with the tabs of the first nesting level left out
PrefixFromLevelTwo(level, headinglevel) ==
    (IF level > 1 THEN Repeat("\t", level) ELSE <<>>) \o <<"-"," ">>
        \o (IF headinglevel # NoHeading THEN Repeat("#", headinglevel) \o <<" ">> ELSE <<>>)

\* the list prefix at a nesting level, with the heading marker
Prefix(level, headinglevel) ==
    (IF level >= 1 THEN Repeat("\t", level) ELSE <<>>) \o <<"-"," ">>
        \o (IF headinglevel # NoHeading THEN Repeat("#", headinglevel) \o <<" ">> ELSE <<>>)

\* the anchor given to every block
PostfixAlways(uid, referenced) == <<" ","^">> \o uid

\* the anchor of a block whose uid is referenced
Postfix(uid, referenced) ==
    IF uid \in referenced THEN <<" ","^">> \o uid ELSE <<>>

\* "b id magic": the continuation lines are indented, a newline is added
Line(prefix, s, postfix) ==
    CHOOSE line \in
        {IF Has(s1, "\n")
         THEN CHOOSE l \in
                {Replace(new, "\n", <<"\n">> \o Slice(prefix, 0, Len(prefix) - 2) \o <<" "," ">>)
                     \o <<s1[Len(s1)]>> \o <<"\n">>
                 : new \in {Slice(s1, 0, Len(s1) - 1)}} : TRUE
         ELSE s1
         : s1 \in {prefix \o s \o postfix}} : TRUE

(***************************************************************************)
(* The input documents.  A block is a node of the heap, a record with the  *)
(* keys of Roam's JSON (uid, string, heading, children) and the "page" key *)
(* that scan_blocks adds (0 while it is unset, then the index of the       *)
(* ParsedPage); children lists hold nodes.                                 *)
(***************************************************************************)

MaxSegs == 2
MaxBlocks == 3
MaxStrLen == 80

UA == Repeat("a", UidLen)
UB == <<"b","_">> \o Repeat("b", UidLen - 2)
UC == Repeat("c", UidLen)
\* a uid that no block of any document has
UU == Repeat("u", UidLen)

Markup(re, uid) == re.open \o uid \o re.close

DayLink == <<"[","[","M","a","y"," ","3","r","d",","," ","2","0","2","3","]","]">>
DailyTitle == <<"M","a","r","c","h"," ","1","2","t","h",","," ","2","0","2","3">>

NewBlock(uid, string, heading, children) ==
    [uid |-> uid, string |-> string, heading |-> heading, children |-> children, page |-> 0]

RECURSIVE Concat(_)
Concat(q) == IF q = <<>> THEN <<>> ELSE Head(q) \o Concat(Tail(q))

\* the pieces the text of the first block is made of
Segs ==
    {<<"x">>, <<"\n">>, DayLink}
        \cup {Markup(re, u) : re \in {re_blockembed, re_blockmentions, re_blockref},
                              u \in {UB, UC, UU}}

Texts == {Concat(q) : q \in UNION {[1..n -> Segs] : n \in 1..MaxSegs}}

\* three root blocks on one page "P"
TextDoc(t1, t2) ==
    [j    |-> << [title |-> <<"P">>, children |-> <<1, 2, 3>>] >>,
     heap |-> << NewBlock(UA, t1, NoHeading, <<>>),
                 NewBlock(UB, t2, NoHeading, <<>>),
                 NewBlock(UC, <<"x">>, NoHeading, <<>>) >>]

\* a reference of each form to the first and to the second block
RefTexts ==
    {<<"x">>}
        \cup {Markup(re, u) : re \in {re_blockembed, re_blockmentions, re_blockref},
                              u \in {UA, UB}}

\* the first block's text is made of up to MaxSegs pieces and the second
\* block is two lines of text, or the first two blocks refer to themselves
\* or to each other
TextDocs ==
    {TextDoc(t1, <<"x","\n","y">>) : t1 \in Texts}
        \cup {TextDoc(t1, t2) : t1 \in RefTexts, t2 \in RefTexts}

UidLetters == <<"a", "b", "c", "d", "e", "f", "g", "h">>

\* the blocks c of m..n, in increasing order, whose parent is k
RECURSIVE Kids(_, _, _, _)
Kids(parent, m, n, k) ==
    IF m > n THEN <<>>
    ELSE (IF parent[m] = k THEN <<m>> ELSE <<>>) \o Kids(parent, m + 1, n, k)

\* the forests of n blocks as parent functions, 0 the parent of a root
Forests(n) == {parent \in [1..n -> 0..(n - 1)] : \A k \in 1..n : parent[k] < k}

\* two pages over a forest of n blocks; the first `split` roots are the
\* first page's; block `dup`, if any, has the uid of block 1; with `rich`
\* block 1 is a heading whose text ends like an anchor and the last block
\* refers to it
ShapeDoc(n, parent, split, dup, title2, rich) ==
    LET roots == Kids(parent, 1, n, 0)
        uid(k) == IF k = dup THEN Repeat(UidLetters[1], UidLen)
                  ELSE Repeat(UidLetters[k], UidLen)
        string(k) == IF ~rich THEN <<"x">>
                     ELSE IF k = 1 THEN <<"x"," ","^">> \o uid(1)
                     ELSE IF k = n THEN Markup(re_blockref, uid(1)) \o DayLink
                     ELSE <<"x">>
    IN  [j    |-> << [title |-> <<"P">>, children |-> SubSeq(roots, 1, split)],
                     [title |-> title2, children |-> SubSeq(roots, split + 1, Len(roots))] >>,
         heap |-> [k \in 1..n |->
                      NewBlock(uid(k), string(k), IF rich /\ k = 1 THEN 2 ELSE NoHeading,
                               Kids(parent, 1, n, k))]]

\* the variants of a forest: the second page's title varies; a block
\* repeats the uid of block 1; the texts are rich; both
ShapeDocs ==
    UNION {UNION {UNION {
        {ShapeDoc(n, parent, split, 0, title2, FALSE) :
             title2 \in {DailyTitle, <<"^">>, <<"a",":","b">>}}
        \cup {ShapeDoc(n, parent, split, dup, DailyTitle, FALSE) : dup \in 2..n}
        \cup {ShapeDoc(n, parent, split, dup, DailyTitle, TRUE) : dup \in {0, n}}
            : split \in 0..Len(Kids(parent, 1, n, 0))}
                : parent \in Forests(n)}
                    : n \in 1..MaxBlocks}

Docs == TextDocs \cup ShapeDocs

(***************************************************************************)
(* The program state                                                       *)
(***************************************************************************)

VARIABLES
    j,                \* main: the pages of the input file
    heap,             \* the block objects, mutated by scan_blocks
    pages,            \* main: the ParsedPages of pass 1
    uid2block,        \* main: uid -> block
    referenced_uids,  \* main: the uids some block refers to
    pc,               \* where the program is
    page_i,           \* main: the index (from 1) of the page of the running loop
    render,           \* render_children: its mode
    unexpanded_lines, \* render_children: the working list
    lines,            \* render_children: the list the running pass builds
    has_unexpanded,   \* render_children
    level,            \* render_children
    wi,               \* render_children: the index (from 1) into unexpanded_lines
    bi,               \* render_children: the index (from 1) into the sibling list
    new_s,            \* render_blockrefs
    startpos,         \* render_blockrefs
    resolved,         \* the value the last call of render_blockrefs returned
    rc_ret,           \* the value the last call of render_children returned
    out               \* main: the lines written for each page, by page index

vars ==
    <<j, heap, pages, uid2block, referenced_uids, pc, page_i, render,
      unexpanded_lines, lines, has_unexpanded, level, wi, bi, new_s, startpos,
      resolved, rc_ret, out>>

main_vars == <<j, heap, pages, uid2block, referenced_uids, out>>
rc_vars == <<render, unexpanded_lines, lines, has_unexpanded, level, wi, bi>>
rb_vars == <<new_s, startpos>>

\* an element of a working list: a finished line, with the block it was
\* rendered from, or a list of sibling blocks
StrEntry(s, blk) == [str |-> TRUE, s |-> s, blk |-> blk, blocks |-> <<>>]
BlocksEntry(blocks) == [str |-> FALSE, s |-> <<>>, blk |-> 0, blocks |-> blocks]

NoReturn == [page |-> 0, render |-> FALSE, value |-> <<>>]

Init ==
    /\ \E doc \in Docs : j = doc.j /\ heap = doc.heap
    /\ pages = <<>>
    /\ uid2block = EmptyDict
    /\ referenced_uids = {}
    /\ pc = "pass1"
    /\ page_i = 1
    /\ render = FALSE
    /\ unexpanded_lines = <<>>
    /\ lines = <<>>
    /\ has_unexpanded = FALSE
    /\ level = 0
    /\ wi = 1
    /\ bi = 1
    /\ new_s = <<>>
    /\ startpos = 0
    /\ resolved = [blk |-> 0, s |-> <<>>]
    /\ rc_ret = NoReturn
    /\ out = <<>>

(***************************************************************************)
(* Pass 1: scan all pages                                                  *)
(***************************************************************************)

\* one iteration of the loop of pass 1
Pass1Page ==
    /\ pc = "pass1"
    /\ page_i <= Len(j)
    /\ \E page_ \in {ParsedPage(j[page_i])} :
       \E visited \in {Visited(heap, page_.children)} :
       \E new_uid2block \in {scan_blocks(heap, page_.children)} :
           /\ heap' = [n \in DOMAIN heap |->
                          IF n \in visited THEN [heap[n] EXCEPT !.page = page_i]
                          ELSE heap[n]]
           /\ uid2block' = Update(uid2block, new_uid2block)
           /\ pages' = Append(pages, page_)
    /\ page_i' = page_i + 1
    /\ UNCHANGED <<j, referenced_uids, out, pc, resolved, rc_ret>>
    /\ UNCHANGED rc_vars
    /\ UNCHANGED rb_vars

Pass1End ==
    /\ pc = "pass1"
    /\ page_i > Len(j)
    /\ pc' = "pass2"
    /\ page_i' = 1
    /\ out' = [p \in 1..Len(pages) |-> <<>>]
    /\ UNCHANGED <<j, heap, pages, uid2block, referenced_uids, resolved, rc_ret>>
    /\ UNCHANGED rc_vars
    /\ UNCHANGED rb_vars

(***************************************************************************)
(* render_children                                                         *)
(***************************************************************************)

\* the call: the working list is the root list, and the first pass begins
CallRenderChildren(children, mode) ==
    /\ render' = mode
    /\ unexpanded_lines' = <<BlocksEntry(children)>>
    /\ level' = 0
    /\ lines' = <<>>
    /\ has_unexpanded' = FALSE
    /\ wi' = 1
    /\ bi' = 1
    /\ pc' = "rc_for"

\* the two appends exchanged: the children go before the block's line
AppendChildrenFirst(ls, line, new_children) ==
    IF new_children # <<>>
    THEN ls \o <<BlocksEntry(new_children), line>>
    ELSE ls \o <<line>>

\* lines.append(line), then lines.append(new_children) if there are any
AppendBlock(ls, line, new_children) ==
    IF new_children # <<>>
    THEN ls \o <<line, BlocksEntry(new_children)>>
    ELSE ls \o <<line>>

\* the element of the working list the outer loop is at
Entry == unexpanded_lines[wi]

\* the block the inner loop is at
Block == Entry.blocks[bi]

\* the outer loop keeps a finished line
RC_KeepLine ==
    /\ pc = "rc_for"
    /\ wi <= Len(unexpanded_lines)
    /\ Entry.str
    /\ lines' = Append(lines, Entry)
    /\ wi' = wi + 1
    /\ UNCHANGED <<render, unexpanded_lines, has_unexpanded, level, bi>>
    /\ UNCHANGED <<pc, resolved, rc_ret>>
    /\ UNCHANGED main_vars
    /\ UNCHANGED <<page_i>>
    /\ UNCHANGED rb_vars

\* the inner loop is through with a sibling list
RC_NextEntry ==
    /\ pc = "rc_for"
    /\ wi <= Len(unexpanded_lines)
    /\ ~Entry.str
    /\ bi > Len(Entry.blocks)
    /\ wi' = wi + 1
    /\ bi' = 1
    /\ UNCHANGED <<render, unexpanded_lines, lines, has_unexpanded, level>>
    /\ UNCHANGED <<pc, resolved, rc_ret>>
    /\ UNCHANGED main_vars
    /\ UNCHANGED <<page_i>>
    /\ UNCHANGED rb_vars

\* render=False: the block's references are collected, its line is empty
RC_ScanBlock ==
    /\ pc = "rc_for"
    /\ wi <= Len(unexpanded_lines)
    /\ ~Entry.str
    /\ bi <= Len(Entry.blocks)
    /\ ~render
    /\ \E found \in {get_referenced_uids(heap[Block].string, uid2block, referenced_uids)} :
           referenced_uids' = found
    /\ lines' = AppendBlock(lines, StrEntry(<<>>, Block), heap[Block].children)
    /\ has_unexpanded' = (has_unexpanded \/ heap[Block].children # <<>>)
    /\ bi' = bi + 1
    /\ UNCHANGED <<render, unexpanded_lines, level, wi>>
    /\ UNCHANGED <<pc, resolved, rc_ret, page_i>>
    /\ UNCHANGED <<j, heap, pages, uid2block, out>>
    /\ UNCHANGED rb_vars

\* render=True: render_blockrefs is called with the block's string
RC_RenderBlock ==
    /\ pc = "rc_for"
    /\ wi <= Len(unexpanded_lines)
    /\ ~Entry.str
    /\ bi <= Len(Entry.blocks)
    /\ render
    /\ new_s' = heap[Block].string
    /\ startpos' = 0
    /\ pc' = "blockrefs"
    /\ UNCHANGED <<resolved, rc_ret, page_i>>
    /\ UNCHANGED main_vars
    /\ UNCHANGED rc_vars

(***************************************************************************)
(* render_blockrefs: one iteration of its loop per step                    *)
(***************************************************************************)

\* the match of the iteration
Found == find_blockrefs(new_s, startpos)

\* the uid is not in uid2block: the cursor moves
RB_Unknown ==
    /\ pc = "blockrefs"
    /\ \E m \in {Found.m} :
           /\ m.found
           /\ m.group2 \notin DOMAIN uid2block
           /\ startpos' = UnknownCursor(m)
    /\ UNCHANGED <<new_s, pc, resolved, rc_ret, page_i>>
    /\ UNCHANGED main_vars
    /\ UNCHANGED rc_vars

\* new_s after the match f of a uid of uid2block is replaced by its link
Rewrite(f) ==
    LET m       == f.m
        head    == Slice(new_s, 0, m.start1)
        r_block == heap[uid2block[m.group2]]
        replacement ==
            Replacement(f.is_embed, pages[r_block.page].title, r_block.uid, r_block.string)
        tail    == SliceFrom(new_s, m.end3)
    IN  head \o replacement \o tail

\* the uid is in uid2block: the match is replaced by a link.  The string is
\* kept within MaxStrLen: a loop that grows it without end stays at the bound
RB_Known ==
    /\ pc = "blockrefs"
    /\ \E f \in {Found} :
       \E result \in {IF f.m.found /\ f.m.group2 \in DOMAIN uid2block
                       THEN Rewrite(f) ELSE <<>>} :
           /\ f.m.found
           /\ f.m.group2 \in DOMAIN uid2block
           /\ Len(result) <= MaxStrLen
           /\ referenced_uids' = referenced_uids \cup {f.m.group2}
           /\ new_s' = result
    /\ UNCHANGED <<startpos, pc, resolved, rc_ret, page_i>>
    /\ UNCHANGED <<j, heap, pages, uid2block, out>>
    /\ UNCHANGED rc_vars

\* no match is left: render_blockrefs returns, and render_children builds
\* the block's line and appends it and the block's children
RB_Return ==
    /\ pc = "blockrefs"
    /\ ~Found.m.found
    /\ \E s \in {replace_daylinks(new_s)} :
       \E prefix \in {Prefix(level, heap[Block].heading)} :
       \E postfix \in {Postfix(heap[Block].uid, referenced_uids)} :
       \E line \in {Line(prefix, s, postfix)} :
           /\ resolved' = [blk |-> Block, s |-> s]
           /\ lines' = AppendBlock(lines, StrEntry(line, Block), heap[Block].children)
    /\ has_unexpanded' = (has_unexpanded \/ heap[Block].children # <<>>)
    /\ bi' = bi + 1
    /\ new_s' = <<>>
    /\ startpos' = 0
    /\ pc' = "rc_for"
    /\ UNCHANGED <<render, unexpanded_lines, level, wi>>
    /\ UNCHANGED <<rc_ret, page_i>>
    /\ UNCHANGED main_vars

(***************************************************************************)
(* render_children: the end of a pass over the working list                *)
(***************************************************************************)

\* a sibling list was appended: another pass, one level deeper
RC_NextPass ==
    /\ pc = "rc_for"
    /\ wi > Len(unexpanded_lines)
    /\ has_unexpanded
    /\ unexpanded_lines' = lines
    /\ level' = level + 1
    /\ lines' = <<>>
    /\ has_unexpanded' = FALSE
    /\ wi' = 1
    /\ bi' = 1
    /\ UNCHANGED <<render, pc, resolved, rc_ret, page_i>>
    /\ UNCHANGED main_vars
    /\ UNCHANGED rb_vars

\* no sibling list is left: render_children returns to the loop of pass 2,
\* or to the loop of pass 3, which writes the page's lines
RC_Return ==
    /\ pc = "rc_for"
    /\ wi > Len(unexpanded_lines)
    /\ ~has_unexpanded
    /\ rc_ret' = [page |-> page_i, render |-> render, value |-> lines]
    /\ out' = IF render THEN [out EXCEPT ![page_i] = lines] ELSE out
    /\ pc' = IF render THEN "pass3" ELSE "pass2"
    /\ page_i' = page_i + 1
    /\ render' = FALSE
    /\ unexpanded_lines' = <<>>
    /\ lines' = <<>>
    /\ has_unexpanded' = FALSE
    /\ level' = 0
    /\ wi' = 1
    /\ bi' = 1
    /\ UNCHANGED <<j, heap, pages, uid2block, referenced_uids, resolved>>
    /\ UNCHANGED rb_vars

(***************************************************************************)
(* Pass 2: track blockrefs.  Pass 3: generate                              *)
(***************************************************************************)

Pass2Page ==
    /\ pc = "pass2"
    /\ page_i <= Len(pages)
    /\ CallRenderChildren(pages[page_i].children, FALSE)
    /\ UNCHANGED <<resolved, rc_ret, page_i>>
    /\ UNCHANGED main_vars
    /\ UNCHANGED rb_vars

Pass2End ==
    /\ pc = "pass2"
    /\ page_i > Len(pages)
    /\ pc' = "pass3"
    /\ page_i' = 1
    /\ UNCHANGED <<resolved, rc_ret>>
    /\ UNCHANGED main_vars
    /\ UNCHANGED rc_vars
    /\ UNCHANGED rb_vars

\* a page without a title is skipped
Pass3Skip ==
    /\ pc = "pass3"
    /\ page_i <= Len(pages)
    /\ pages[page_i].title = <<>>
    /\ page_i' = page_i + 1
    /\ UNCHANGED <<pc, resolved, rc_ret>>
    /\ UNCHANGED main_vars
    /\ UNCHANGED rc_vars
    /\ UNCHANGED rb_vars

Pass3Page ==
    /\ pc = "pass3"
    /\ page_i <= Len(pages)
    /\ pages[page_i].title # <<>>
    /\ CallRenderChildren(pages[page_i].children, TRUE)
    /\ UNCHANGED <<resolved, rc_ret, page_i>>
    /\ UNCHANGED main_vars
    /\ UNCHANGED rb_vars

Pass3End ==
    /\ pc = "pass3"
    /\ page_i > Len(pages)
    /\ pc' = "done"
    /\ UNCHANGED <<page_i, resolved, rc_ret>>
    /\ UNCHANGED main_vars
    /\ UNCHANGED rc_vars
    /\ UNCHANGED rb_vars

Next ==
    \/ Pass1Page
    \/ Pass1End
    \/ Pass2Page
    \/ Pass2End
    \/ Pass3Skip
    \/ Pass3Page
    \/ Pass3End
    \/ RC_KeepLine
    \/ RC_NextEntry
    \/ RC_ScanBlock
    \/ RC_RenderBlock
    \/ RC_NextPass
    \/ RC_Return
    \/ RB_Unknown
    \/ RB_Known
    \/ RB_Return

Spec == Init /\ [][Next]_vars

\* the program runs on while it can: it is one sequential process
FairSpec == Spec /\ WF_vars(Next)

(***************************************************************************)
(* The document as the claims speak of it: where a block sits in its       *)
(* page's forest, read off the input and not off what the passes compute   *)
(***************************************************************************)

Nodes == DOMAIN heap

\* the index of x in the sequence q
IndexIn(q, x) == CHOOSE k \in 1..Len(q) : q[k] = x

IsRootOf(n, p) == \E k \in 1..Len(j[p].children) : j[p].children[k] = n
IsChildOf(n, m) == \E k \in 1..Len(heap[m].children) : heap[m].children[k] = n

\* the page, then the sibling indices from the root down to the block
RECURSIVE PathOf(_)
PathOf(n) ==
    IF \E p \in 1..Len(j) : IsRootOf(n, p)
    THEN LET p == CHOOSE p \in 1..Len(j) : IsRootOf(n, p)
         IN  <<p, IndexIn(j[p].children, n)>>
    ELSE LET m == CHOOSE m \in Nodes : IsChildOf(n, m)
         IN  Append(PathOf(m), IndexIn(heap[m].children, n))

PageOf(n) == PathOf(n)[1]
DepthOf(n) == Len(PathOf(n)) - 2

\* a comes before b in document order: pages in input order, pre-order within
RECURSIVE PathLess(_, _)
PathLess(a, b) ==
    IF a = <<>> THEN b # <<>>
    ELSE IF b = <<>> THEN FALSE
    ELSE IF Head(a) # Head(b) THEN Head(a) < Head(b)
    ELSE PathLess(Tail(a), Tail(b))

Precedes(a, b) == PathLess(PathOf(a), PathOf(b))

Regexes == {re_blockembed, re_blockmentions, re_blockref}

\* the uid of the markup of pattern re at offset i of s
UidAt(re, s, i) == Slice(s, i + Len(re.open), i + Len(re.open) + UidLen)

\* the length of a markup of pattern re
MarkupLen(re) == Len(re.open) + UidLen + Len(re.close)

\* pass 2 is over
AfterPass2 == pc \in {"pass3", "done"} \/ (pc \in {"rc_for", "blockrefs"} /\ render)

\* a rendered line without the newline that ends a line of several lines
Core(line) == IF Has(line, "\n") THEN Slice(line, 0, Len(line) - 1) ELSE line

Anchor(uid) == <<" ","^">> \o uid

\* the lines written so far, over all pages
OutLines == UNION {{out[p][k] : k \in 1..Len(out[p])} : p \in 1..Len(out)}

(***************************************************************************)
(* C1                                                                      *)
(***************************************************************************)

\* C1: after pass 2, every uid of uid2block that an embed, a mention or a
\* plain reference in some block's text names is in referenced_uids,
\* whatever the forms and their order in the text
C1_DiscoverySound ==
    AfterPass2 =>
        \A n \in Nodes : \A re \in Regexes : \A i \in 0..Len(heap[n].string) :
            (MatchesAt(re, heap[n].string, i)
                /\ UidAt(re, heap[n].string, i) \in DOMAIN uid2block)
            => UidAt(re, heap[n].string, i) \in referenced_uids

(***************************************************************************)
(* C2                                                                      *)
(***************************************************************************)

\* C2: referenced_uids only grows, pass 3 adds nothing to it, and no page is
\* rendered before every page is indexed and scanned
C2_ReadOnlyInPass3 ==
    /\ [][referenced_uids \subseteq referenced_uids']_vars
    /\ [][AfterPass2 => referenced_uids' = referenced_uids]_vars
    /\ [](render => (Len(pages) = Len(j) /\ AfterPass2))

(***************************************************************************)
(* C3                                                                      *)
(***************************************************************************)

\* a step in which render_children appends the line of the block it rendered
LineBuilt == pc = "blockrefs" /\ pc' = "rc_for"

\* C3 as stated: the line a block is rendered to ends with " ^<uid>" if and
\* only if the uid is in referenced_uids
C3_AnchorIff_AsStated ==
    [][LineBuilt =>
        LET e   == lines'[Len(lines) + 1]
            uid == heap[e.blk].uid
        IN  EndsWith(e.s, Anchor(uid)) <=> uid \in referenced_uids']_vars

\* C3, amended: the line, without the newline that ends a line of several
\* lines, ends with " ^<uid>" if the uid is in referenced_uids when the line
\* is built; if the uid is not, and the block's resolved text does not itself
\* end with "^<uid>", the line does not end with " ^<uid>"
C3_AnchorIff ==
    [][LineBuilt =>
        LET e   == lines'[Len(lines) + 1]
            uid == heap[e.blk].uid
        IN  /\ uid \in referenced_uids' => EndsWith(Core(e.s), Anchor(uid))
            /\ (uid \notin referenced_uids' /\ ~EndsWith(resolved'.s, <<"^">> \o uid))
                   => ~EndsWith(Core(e.s), Anchor(uid))]_vars

\* a referenced block of two lines is rendered: the anchor is followed by a
\* newline; and an unreferenced block was rendered without an anchor
C3_Witness ==
    /\ \E e \in OutLines :
           /\ heap[e.blk].uid \in referenced_uids
           /\ Has(heap[e.blk].string, "\n")
           /\ EndsWith(e.s, Anchor(heap[e.blk].uid) \o <<"\n">>)
    /\ \E e \in OutLines :
           /\ heap[e.blk].uid \notin referenced_uids
           /\ ~EndsWith(Core(e.s), Anchor(heap[e.blk].uid))

(***************************************************************************)
(* C4                                                                      *)
(***************************************************************************)

\* C4: what render_children returns for a page holds one string per block of
\* the page's forest and no sibling list, in the forest's pre-order
C4_PreOrder ==
    rc_ret.page # 0 =>
        LET v == rc_ret.value
        IN  /\ \A k \in 1..Len(v) : v[k].str
            /\ {v[k].blk : k \in 1..Len(v)} = {n \in Nodes : PageOf(n) = rc_ret.page}
            /\ Len(v) = Cardinality({n \in Nodes : PageOf(n) = rc_ret.page})
            /\ \A k, l \in 1..Len(v) : k < l => Precedes(v[k].blk, v[l].blk)

\* a rendered page in which a root follows a nested block, which was
\* appended a pass after it
C4_Witness ==
    /\ rc_ret.render
    /\ \E k \in 1..(Len(rc_ret.value) - 1) :
           /\ DepthOf(rc_ret.value[k].blk) >= 1
           /\ DepthOf(rc_ret.value[k + 1].blk) = 0

(***************************************************************************)
(* C5                                                                      *)
(***************************************************************************)

\* C5: a rendered line without a newline starts with as many tabs as its
\* block is deep, then "- "
C5_Indentation ==
    \A e \in OutLines \cup (IF render THEN {lines[k] : k \in 1..Len(lines)} ELSE {}) :
        (e.str /\ ~Has(e.s, "\n"))
            => StartsWithAt(e.s, Repeat("\t", DepthOf(e.blk)) \o <<"-"," ">>, 0)

\* lines of depth 0, 1 and 2 are written
C5_Witness ==
    \A d \in 0..2 : \E e \in OutLines : DepthOf(e.blk) = d /\ ~Has(e.s, "\n")

(***************************************************************************)
(* C6                                                                      *)
(***************************************************************************)

\* C6: after pass 1 every block's uid is a key of uid2block, its value is
\* the last block of that uid in document order (so a block of a uid of its
\* own maps to itself), and that block's "page" is the page that holds it
C6_IndexComplete ==
    pc # "pass1" =>
        \A n \in Nodes :
            /\ heap[n].uid \in DOMAIN uid2block
            /\ LET b == uid2block[heap[n].uid]
               IN  /\ heap[b].uid = heap[n].uid
                   /\ b = n \/ Precedes(n, b)
                   /\ heap[b].page = PageOf(b)

\* two blocks share a uid, one below the other, and a third shares it on
\* another page or the uid is indexed to the lower one
C6_Witness ==
    /\ pc = "pass2"
    /\ \E a, b \in Nodes :
           /\ a # b
           /\ heap[a].uid = heap[b].uid
           /\ uid2block[heap[a].uid] = b
           /\ IsChildOf(b, a)
    /\ \E a, b \in Nodes :
           /\ heap[a].uid # heap[b].uid
           /\ uid2block[heap[a].uid] = a
           /\ PageOf(a) # PageOf(b)

(***************************************************************************)
(* C7                                                                      *)
(***************************************************************************)

\* C7: the string render_blockrefs returns holds no embed, mention or plain
\* reference whose uid is in uid2block
C7_ResolverComplete ==
    resolved.blk # 0 =>
        \A re \in Regexes : \A i \in 0..Len(resolved.s) :
            MatchesAt(re, resolved.s, i) => UidAt(re, resolved.s, i) \notin DOMAIN uid2block

(***************************************************************************)
(* C8                                                                      *)
(***************************************************************************)

\* an iteration of render_blockrefs that leaves the string as it is
CursorMoved == pc = "blockrefs" /\ pc' = "blockrefs" /\ new_s' = new_s

\* C8: a markup whose uid is not in uid2block is in the returned string as it
\* was in the block's text, no such uid is ever in referenced_uids, and the
\* iteration that meets it puts the cursor just past its uid
C8_UnknownStable ==
    /\ [](resolved.blk # 0 =>
            LET s == heap[resolved.blk].string
            IN  \A re \in Regexes : \A i \in 0..Len(s) :
                    (MatchesAt(re, s, i) /\ UidAt(re, s, i) \notin DOMAIN uid2block)
                        => Contains(resolved.s, Slice(s, i, i + MarkupLen(re))))
    /\ [](referenced_uids \subseteq DOMAIN uid2block)
    /\ [][CursorMoved =>
            \E re \in Regexes : \E i \in startpos..Len(new_s) :
                /\ MatchesAt(re, new_s, i)
                /\ UidAt(re, new_s, i) \notin DOMAIN uid2block
                /\ startpos' = i + Len(re.open) + UidLen]_vars

\* render_blockrefs has returned a string in which it replaced a reference
\* and left one of an unknown uid
C8_Witness ==
    /\ resolved.blk # 0
    /\ resolved.s # heap[resolved.blk].string
    /\ Contains(resolved.s, Markup(re_blockmentions, UU))
    /\ Contains(heap[resolved.blk].string, Markup(re_blockmentions, UU))
    /\ Contains(heap[resolved.blk].string, Markup(re_blockref, UC))
    /\ ~Contains(resolved.s, Markup(re_blockref, UC))

(***************************************************************************)
(* C9                                                                      *)
(***************************************************************************)

RECURSIVE LinkId(_, _)
LinkId(s, i) ==
    IF i >= Len(s) \/ s[i + 1] \in {"|", "]"} THEN <<>>
    ELSE <<s[i + 1]>> \o LinkId(s, i + 1)

\* C10: after the run, the anchor id of every link in the output ("#^<id>")
\* is the id of the anchor (" ^<id>") that ends some written line
C10_LinkIntegrity ==
    pc = "done" =>
        \A e \in OutLines : \A i \in 0..Len(e.s) :
            StartsWithAt(e.s, <<"#","^">>, i)
                => \E t \in OutLines : EndsWith(Core(t.s), Anchor(LinkId(e.s, i + 2)))

====
